---- MODULE Spec2Model ----
(***************************************************************************)
(* Model of src/main.py (pfsense2unifi): one run of main() as a sequential *)
(* state machine.  The environment (the pfSense box, the local disk, the   *)
(* UniFi controller API) answers nondeterministically from small sets.     *)
(***************************************************************************)
EXTENDS Integers, Sequences, FiniteSets, TLC

\* ------------------------------------------------------------------ bounds
MaxStatic == 2      \* staticmap nodes in a document
MaxHosts  == 2      \* DNS host nodes in a document
MaxNets   == 2      \* networks returned by the networkconf endpoint

\* ------------------------------------------------------------- value sets
\* Python's None, and "no such child element" (Element.find() returning None)
None   == "<None>"
Absent == "<absent>"

\* A child element is Absent, present and empty (""), or present with text.
\* staticmap nodes: without a hostname child, with one, with an empty one.
StaticNodes ==
    {[mac |-> "m1", ipaddr |-> "10.0.0.50", hostname |-> Absent],
     [mac |-> "m1", ipaddr |-> "10.0.0.51", hostname |-> "nas"],
     [mac |-> "m2", ipaddr |-> "10.0.0.52", hostname |-> ""]}
\* DNS host nodes: two of the same host name, and another name.
HostNodes(path) ==
    {[host |-> h.host, ip |-> h.ip,
      domain |-> IF path = "unbound/hosts" THEN "lab" ELSE Absent] :
        h \in {[host |-> "printer", ip |-> "10.0.0.60"],
                [host |-> "printer", ip |-> "10.0.0.61"],
                [host |-> "cam",     ip |-> "10.0.0.60"]}}

BSeq(S, n) == UNION {[1..k -> S] : k \in 0..n}

\* What is on disk at a path: nothing, or a file with some content.
NoFile     == [exists |-> FALSE, content |-> <<>>]
File(data) == [exists |-> TRUE, content |-> data]

\* A source document: its staticmap nodes under dhcpd, and its DNS host
\* nodes, which sit at unbound/hosts (host, ip, domain) or at hosts/host
\* (host, ip), all in document order.
DnsPaths == {"unbound/hosts", "hosts/host"}
AllDocs ==
    UNION {[staticmaps : BSeq(StaticNodes, MaxStatic),
            dnsPath    : {p},
            hosts      : BSeq(HostNodes(p), MaxHosts)] : p \in DnsPaths}
\* The documents explored: all with one section empty, and those with one
\* node in each section.
Docs ==
    {d \in AllDocs :
        /\ Len(d.staticmaps) * Len(d.hosts) <= 1
        /\ d.hosts = <<>> => d.dnsPath = "unbound/hosts"}

\* Network names are sequences of characters, so str.lower() is computed.
LowerChar(c) ==
    CASE c = "L" -> "l"
      [] c = "A" -> "a"
      [] c = "N" -> "n"
      [] c = "W" -> "w"
      [] OTHER   -> c
Lower(s) == [i \in DOMAIN s |-> LowerChar(s[i])]

NetNames == {<<"l","a","n">>, <<"L","A","N">>, <<"w","a","n">>}
LanNames == {<<"l","a","n">>, <<"L","A","N">>}
\* The "data" list of the networkconf response; every network has its own _id.
NetworkLists ==
    {[i \in DOMAIN names |-> [name |-> names[i], _id |-> ToString(i)]] :
        names \in BSeq(NetNames, MaxNets)}

Statuses == {200, 201, 500}
ArgSets  == [all : BOOLEAN, pfsense : BOOLEAN, unifi : BOOLEAN, verbose : BOOLEAN]

VARIABLES
    args,               \* parsed command line (main.py:68)
    UNIFI_LAN_NAME,     \* config.ini value (main.py:55)
    localFile,          \* content of LOCAL_PATH on disk
    pc,                 \* position in main()
    branch,             \* which if-block of main() is executing
    exitCode,           \* process exit status, read once pc is terminal
    calls,              \* functions called so far, in order
    out,                \* lines printed so far
    dhcp_reservations,  \* main.py:93
    dns_entries,        \* main.py:104
    SITE,               \* main.py:60
    networks,           \* "data" of the networkconf response
    network_id,         \* main.py:241
    idx,                \* records the migrate loop has handled
    posts,              \* payloads POSTed to rest/user
    responses,          \* responses to those POSTs
    gatewayFile         \* content of config.gateway.json written by this run

vars == <<args, UNIFI_LAN_NAME, localFile, pc, branch, exitCode, calls, out,
          dhcp_reservations, dns_entries, SITE, networks, network_id, idx,
          posts, responses, gatewayFile>>

\* --------------------------------------------------------- pure functions

\* Element.text: None for an element without text.
ElemText(child) == IF child = "" THEN None ELSE child

\* main.py:95-99
Reservation(static_mapping) ==
    [mac      |-> ElemText(static_mapping.mac),
     ip       |-> ElemText(static_mapping.ipaddr),
     hostname |-> IF static_mapping.hostname # Absent
                  THEN ElemText(static_mapping.hostname)
                  ELSE "Unknown"]

\* main.py:106-110
DnsEntry(host) ==
    [hostname |-> ElemText(host.host),
     ip       |-> ElemText(host.ip),
     domain   |-> ElemText(host.domain)]

\* root.findall(".//dhcpd//staticmap")
FindStaticmaps(doc) == doc.staticmaps
\* root.findall(".//unbound/hosts")
FindUnboundHosts(doc) ==
    IF doc.dnsPath = "unbound/hosts" THEN doc.hosts ELSE <<>>

\* main.py:87-116, the returned pair
ParseConfig(doc) ==
    LET sm == FindStaticmaps(doc)
        hs == FindUnboundHosts(doc)
    IN  [dhcp |-> [i \in DOMAIN sm |-> Reservation(sm[i])],
         dns  |-> [i \in DOMAIN hs |-> DnsEntry(hs[i])]]

\* A lookup that falls back to the first network when none matches.
NetworkIdLookupFallback(networks_data, lan_name) ==
    LET hits == {i \in DOMAIN networks_data :
                    Lower(networks_data[i].name) = lan_name}
    IN  IF hits = {}
        THEN IF networks_data = <<>> THEN None ELSE networks_data[1]._id
        ELSE networks_data[CHOOSE i \in hits : \A j \in hits : i <= j]._id

\* main.py:154-161: the _id of the first network whose lowered name equals
\* lan_name, None when the loop ends without a match
NetworkIdLookup(networks_data, lan_name) ==
    LET hits == {i \in DOMAIN networks_data :
                    Lower(networks_data[i].name) = lan_name}
    IN  IF hits = {} THEN None
        ELSE networks_data[CHOOSE i \in hits : \A j \in hits : i <= j]._id

\* A payload whose site_id carries the site name instead of the network id.
PayloadSiteName(reservation, nid) ==
    [mac         |-> reservation.mac,
     fixed_ip    |-> reservation.ip,
     name        |-> reservation.hostname,
     site_id     |-> SITE,
     use_fixedip |-> TRUE]

\* main.py:172-178
Payload(reservation, nid) ==
    [mac         |-> reservation.mac,
     fixed_ip    |-> reservation.ip,
     name        |-> reservation.hostname,
     site_id     |-> nid,
     use_fixedip |-> TRUE]

\* A report that prints the success line whatever the status.
ReportLineAlwaysAdded(reservation, response) ==
    [kind |-> "added", mac |-> reservation.mac, ip |-> reservation.ip,
     hostname |-> reservation.hostname]

\* main.py:181-184: the line printed for one response
ReportLine(reservation, response) ==
    IF response.status_code = 200
    THEN [kind |-> "added", mac |-> reservation.mac, ip |-> reservation.ip,
          hostname |-> reservation.hostname]
    ELSE [kind |-> "failed", mac |-> reservation.mac, ip |-> reservation.ip,
          text |-> response.text]

\* A fold that keeps the first entry of a host name (first-write-wins).
RECURSIVE DnsFoldFirstWins(_)
DnsFoldFirstWins(entries) ==
    IF entries = <<>> THEN [k \in {} |-> [inet |-> <<>>]]
    ELSE LET n    == Len(entries)
             e    == entries[n]
             prev == DnsFoldFirstWins(SubSeq(entries, 1, n - 1))
         IN  [k \in DOMAIN prev \cup {e.hostname} |->
                 IF k \in DOMAIN prev THEN prev[k] ELSE [inet |-> <<e.ip>>]]

\* main.py:196-199: the host-name dict after the loop over dns_entries
RECURSIVE DnsFold(_)
DnsFold(entries) ==
    IF entries = <<>> THEN [k \in {} |-> [inet |-> <<>>]]
    ELSE LET n    == Len(entries)
             e    == entries[n]
             prev == DnsFold(SubSeq(entries, 1, n - 1))
         IN  [k \in DOMAIN prev \cup {e.hostname} |->
                 IF k = e.hostname THEN [inet |-> <<e.ip>>] ELSE prev[k]]

\* main.py:188-199
DnsConfig(entries) ==
    [system |-> [static_host_mapping |-> [host_name |-> DnsFold(entries)]]]

\* main.py:228: any(vars(args).values())
AnyArg(a) == a.all \/ a.pfsense \/ a.unifi \/ a.verbose

\* main.py:236, 246, 250: the if-block entered after block b ("start": none
\* yet), or the end of main()
EnterFrom(b) ==
    IF b = "start" /\ args.all
    THEN [branch |-> "all", pc |-> "fetch"]
    ELSE IF b \in {"start", "all"} /\ args.pfsense /\ args.all # TRUE
    THEN [branch |-> "pfsense", pc |-> "fetch"]
    ELSE IF b \in {"start", "all", "pfsense"} /\ args.unifi /\ args.all # TRUE
    THEN [branch |-> "unifi", pc |-> "parse"]
    ELSE [branch |-> "none", pc |-> "done"]

\* ------------------------------------------------------------------ state

Init ==
    /\ args \in ArgSets
    /\ UNIFI_LAN_NAME \in LanNames
    /\ localFile \in {NoFile} \cup {File(d) : d \in Docs}
    /\ pc = "main"
    /\ branch = "none"
    /\ exitCode = 0
    /\ calls = <<>>
    /\ out = <<>>
    /\ dhcp_reservations = <<>>
    /\ dns_entries = <<>>
    /\ SITE = None
    /\ networks = <<>>
    /\ network_id = None
    /\ idx = 0
    /\ posts = <<>>
    /\ responses = <<>>
    /\ gatewayFile = NoFile

\* the next stage of main(); falling off its end leaves status 0
Goto(stage) ==
    /\ branch' = stage.branch
    /\ pc' = stage.pc
    /\ UNCHANGED exitCode

\* exit(code), or an uncaught exception (status 1)
Exit(kind, code) ==
    /\ pc' = kind
    /\ exitCode' = code
    /\ UNCHANGED branch

\* ---------------------------------------------------------------- actions

\* main.py:226-236
Main ==
    /\ pc = "main"
    /\ IF ~AnyArg(args)
       THEN /\ out' = out \o <<[kind |-> "noargs"], [kind |-> "usage"]>>
            /\ Exit("exited", 1)
       ELSE /\ out' = IF args.verbose
                      THEN Append(out, [kind |-> "verbose"]) ELSE out
            /\ Goto(EnterFrom("start"))
    /\ UNCHANGED <<args, UNIFI_LAN_NAME, localFile, calls, dhcp_reservations,
                   dns_entries, SITE, networks, network_id, idx, posts,
                   responses, gatewayFile>>

\* main.py:74-85
fetch_pfsense_config ==
    /\ pc = "fetch"
    /\ calls' = Append(calls, "fetch_pfsense_config")
    /\ \/ \E d \in Docs :
            /\ localFile' = File(d)
            /\ out' = Append(out, [kind |-> "downloaded"])
            /\ pc' = "parse"
            /\ UNCHANGED <<branch, exitCode>>
       \/ /\ Exit("crashed", 1)          \* connect or sftp.get raises
          /\ UNCHANGED <<localFile, out>>
    /\ UNCHANGED <<args, UNIFI_LAN_NAME, dhcp_reservations, dns_entries, SITE,
                   networks, network_id, idx, posts, responses, gatewayFile>>

\* main.py:101-102, 112-113, 115: what parsing prints
ParseOutput(r) ==
    (IF args.verbose
     THEN [i \in DOMAIN r.dhcp |-> [kind |-> "static", rec |-> r.dhcp[i]]]
          \o [i \in DOMAIN r.dns |-> [kind |-> "dns", rec |-> r.dns[i]]]
     ELSE <<>>)
    \o <<[kind |-> "extracted", dhcp |-> Len(r.dhcp), dns |-> Len(r.dns)]>>

\* main.py:87-116
parse_pfsense_config ==
    /\ pc = "parse"
    /\ calls' = Append(calls, "parse_pfsense_config")
    /\ IF ~localFile.exists
       THEN /\ out' = Append(out, [kind |-> "path"])
            /\ Exit("crashed", 1)        \* ET.parse raises
            /\ UNCHANGED <<dhcp_reservations, dns_entries>>
       ELSE LET r == ParseConfig(localFile.content) IN
            /\ dhcp_reservations' = r.dhcp
            /\ dns_entries' = r.dns
            /\ out' = (out \o <<[kind |-> "path"]>>) \o ParseOutput(r)
            /\ IF branch = "pfsense"
               THEN Goto(EnterFrom("pfsense"))
               ELSE pc' = "login" /\ UNCHANGED <<branch, exitCode>>
    /\ UNCHANGED <<args, UNIFI_LAN_NAME, localFile, SITE, networks, network_id,
                   idx, posts, responses, gatewayFile>>

\* main.py:118-130
unifi_login ==
    /\ pc = "login"
    /\ calls' = Append(calls, "unifi_login")
    /\ \E status_code \in {200, 401} :
          IF status_code = 200
          THEN /\ out' = Append(out, [kind |-> "login_ok"])
               /\ pc' = "site"
               /\ UNCHANGED <<branch, exitCode>>
          ELSE /\ out' = Append(out, [kind |-> "login_failed"])
               /\ Exit("exited", 1)
    /\ UNCHANGED <<args, UNIFI_LAN_NAME, localFile, dhcp_reservations,
                   dns_entries, SITE, networks, network_id, idx, posts,
                   responses, gatewayFile>>

\* main.py:132-142
get_site_name ==
    /\ pc = "site"
    /\ calls' = Append(calls, "get_site_name")
    /\ \E data \in {<<>>, <<[name |-> "default"]>>} :
          IF data = <<>>
          THEN /\ Exit("crashed", 1)     \* ["data"][0] raises IndexError
               /\ UNCHANGED <<SITE, out>>
          ELSE /\ SITE' = data[1].name
               /\ out' = Append(out, [kind |-> "site", name |-> data[1].name])
               /\ pc' = "netid"
               /\ UNCHANGED <<branch, exitCode>>
    /\ UNCHANGED <<args, UNIFI_LAN_NAME, localFile, dhcp_reservations,
                   dns_entries, networks, network_id, idx, posts, responses,
                   gatewayFile>>

\* main.py:144-161
get_network_id ==
    /\ pc = "netid"
    /\ calls' = Append(calls, "get_network_id")
    /\ \E networks_data \in NetworkLists :
          LET found == NetworkIdLookup(networks_data, UNIFI_LAN_NAME) IN
          /\ networks' = networks_data
          /\ IF found # None
             THEN /\ network_id' = found
                  /\ out' = IF args.verbose
                            THEN Append(out, [kind |-> "lan_id", id |-> found])
                            ELSE out
                  /\ pc' = "migrate"
                  /\ UNCHANGED <<branch, exitCode>>
             ELSE /\ out' = Append(out, [kind |-> "lan_not_found"])
                  /\ Exit("exited", 1)
                  /\ UNCHANGED network_id
    /\ UNCHANGED <<args, UNIFI_LAN_NAME, localFile, dhcp_reservations,
                   dns_entries, SITE, idx, posts, responses, gatewayFile>>

\* A loop that raises on the first response that is not 200.
migrate_raise_for_status ==
    /\ pc = "migrate"
    /\ calls' = IF idx = 0
                THEN Append(calls, "migrate_dhcp_reservations") ELSE calls
    /\ IF idx < Len(dhcp_reservations)
       THEN \E status_code \in Statuses :
              LET reservation == dhcp_reservations[idx + 1]
                  response    == [status_code |-> status_code,
                                  text |-> <<"body", status_code>>]
              IN  /\ posts' = Append(posts, Payload(reservation, network_id))
                  /\ responses' = Append(responses, response)
                  /\ idx' = idx + 1
                  /\ IF status_code = 200
                     THEN /\ out' = Append(out, ReportLine(reservation, response))
                          /\ UNCHANGED <<pc, branch, exitCode>>
                     ELSE /\ Exit("crashed", 1)
                          /\ UNCHANGED out
       ELSE /\ pc' = "dns"
            /\ UNCHANGED <<posts, responses, out, idx, branch, exitCode>>
    /\ UNCHANGED <<args, UNIFI_LAN_NAME, localFile, dhcp_reservations,
                   dns_entries, SITE, networks, network_id, gatewayFile>>

\* main.py:163-184: the call, and one iteration of the loop per step
migrate_dhcp_reservations ==
    /\ pc = "migrate"
    /\ IF idx < Len(dhcp_reservations)
       THEN \E status_code \in Statuses :
              LET reservation == dhcp_reservations[idx + 1]
                  response    == [status_code |-> status_code,
                                  text |-> <<"body", status_code>>]
              IN  /\ posts' = Append(posts, Payload(reservation, network_id))
                  /\ responses' = Append(responses, response)
                  /\ out' = Append(out, ReportLine(reservation, response))
                  /\ idx' = idx + 1
                  /\ calls' = IF idx = 0
                              THEN Append(calls, "migrate_dhcp_reservations")
                              ELSE calls
                  /\ UNCHANGED pc
       ELSE /\ pc' = "dns"
            /\ calls' = IF idx = 0
                        THEN Append(calls, "migrate_dhcp_reservations")
                        ELSE calls
            /\ UNCHANGED <<posts, responses, out, idx>>
    /\ UNCHANGED <<args, UNIFI_LAN_NAME, localFile, branch, exitCode,
                   dhcp_reservations, dns_entries, SITE, networks, network_id,
                   gatewayFile>>

\* main.py:186-204
generate_dns_json ==
    /\ pc = "dns"
    /\ calls' = Append(calls, "generate_dns_json")
    /\ gatewayFile' = File(DnsConfig(dns_entries))
    /\ out' = Append(out, [kind |-> "generated"])
    /\ Goto(EnterFrom(branch))
    /\ UNCHANGED <<args, UNIFI_LAN_NAME, localFile, dhcp_reservations,
                   dns_entries, SITE, networks, network_id, idx, posts,
                   responses>>

Next ==
    \/ Main
    \/ fetch_pfsense_config
    \/ parse_pfsense_config
    \/ unifi_login
    \/ get_site_name
    \/ get_network_id
    \/ migrate_dhcp_reservations
    \/ generate_dns_json

Spec == Init /\ [][Next]_vars

\* ----------------------------------------------------------------- claims

Terminal   == pc \in {"done", "exited", "crashed"}
Called(f)  == \E i \in DOMAIN calls : calls[i] = f
Migrated   == Called("migrate_dhcp_reservations") /\ pc \in {"dns", "done"}
Is2xx(n)   == n \in 200..299
\* equality ignoring case
SameNameIgnoringCase(a, b) == Lower(a) = Lower(b)
CaseInsensitiveHits ==
    {i \in DOMAIN networks : SameNameIgnoringCase(networks[i].name, UNIFI_LAN_NAME)}
IsReport(l)   == l.kind \in {"added", "failed"}
IsFailed(l)   == l.kind = "failed"
ReportLines   == SelectSeq(out, IsReport)
NoModeFlag    == ~args.all /\ ~args.pfsense /\ ~args.unifi

\* C1: whenever no mode flag (-a, -p, -u) is set, -v or not, main() prints
\* usage, exits with a non-zero status and runs no pipeline stage.
C1_NoModeFlagPrintsUsage ==
    (NoModeFlag /\ pc # "main") =>
        /\ pc = "exited"
        /\ exitCode # 0
        /\ \E i \in DOMAIN out : out[i].kind = "usage"
        /\ calls = <<>>
        /\ posts = <<>>
        /\ ~gatewayFile.exists

\* C2: once the network list has been fetched and no network name equals the
\* LAN name ignoring case, the run has exited non-zero, no reservation POST
\* has been issued and config.gateway.json has not been written.
C2_NoMatchAbortsBeforePost ==
    (Called("get_network_id") /\ CaseInsensitiveHits = {}) =>
        /\ pc = "exited"
        /\ exitCode = 1
        /\ posts = <<>>
        /\ ~Called("migrate_dhcp_reservations")
        /\ ~gatewayFile.exists

C2_Witness ==
    /\ Called("get_network_id")
    /\ networks # <<>>
    /\ CaseInsensitiveHits = {}
    /\ pc = "exited"

\* C3: whenever some returned network's name equals the LAN name ignoring
\* case, get_network_id does not abort and returns the _id of the first such
\* network.
C3_CaseInsensitiveMatchReturnsFirst ==
    (Called("get_network_id") /\ CaseInsensitiveHits # {}) =>
        /\ pc # "exited"
        /\ network_id =
             networks[CHOOSE i \in CaseInsensitiveHits :
                         \A j \in CaseInsensitiveHits : i <= j]._id

\* C4: no response to a reservation POST stops the run: every record is
\* attempted, each non-2xx response is reported as failed for its record,
\* the run goes on to its end and config.gateway.json is written afterwards.
C4_FailuresAreNonFatal ==
    /\ Called("migrate_dhcp_reservations") =>
          /\ pc \in {"migrate", "dns", "done"}
          /\ exitCode = 0
    /\ pc \in {"migrate", "dns"} => ENABLED Next
    /\ Len(posts) = idx /\ Len(responses) = idx /\ Len(ReportLines) = idx
    /\ \A i \in 1..Len(responses) :
          ~Is2xx(responses[i].status_code) =>
              /\ ReportLines[i].kind = "failed"
              /\ ReportLines[i].mac = dhcp_reservations[i].mac
              /\ ReportLines[i].ip = dhcp_reservations[i].ip
    /\ Migrated => idx = Len(dhcp_reservations)
    /\ (Called("migrate_dhcp_reservations") /\ pc = "done") =>
          /\ gatewayFile.exists
          /\ calls[Len(calls)] = "generate_dns_json"

C4_Witness ==
    /\ pc = "done"
    /\ Len(responses) >= 2
    /\ ~Is2xx(responses[1].status_code)
    /\ ReportLines[1].kind = "failed"
    /\ gatewayFile.exists

\* C5: a submission is reported as added exactly when its response status is
\* in 200..299, and otherwise as failed together with the response body.
C5_FailedExactlyWhenNon2xx ==
    \A i \in 1..Len(responses) :
        IF Is2xx(responses[i].status_code)
        THEN ReportLines[i].kind = "added"
        ELSE /\ ReportLines[i].kind = "failed"
             /\ ReportLines[i].text = responses[i].text

C7_OneRecordPerNode ==
    (Called("parse_pfsense_config") /\ pc # "crashed") =>
        LET doc == localFile.content IN
        /\ Len(dhcp_reservations) = Len(doc.staticmaps)
        /\ \A i \in DOMAIN dhcp_reservations :
              /\ dhcp_reservations[i].mac = doc.staticmaps[i].mac
              /\ dhcp_reservations[i].ip = doc.staticmaps[i].ipaddr
        /\ Len(dns_entries) = Len(doc.hosts)
        /\ \A i \in DOMAIN dns_entries :
              /\ dns_entries[i].hostname = doc.hosts[i].host
              /\ dns_entries[i].ip = doc.hosts[i].ip

\* C8: an extracted reservation copies mac and ipaddr verbatim, takes the
\* hostname child's text when the child is present and "Unknown" when it is
\* absent, and its hostname is never null.
C8_HostnameIsAlwaysAString ==
    (Called("parse_pfsense_config") /\ pc # "crashed") =>
        LET sm == localFile.content.staticmaps IN
        \A i \in DOMAIN dhcp_reservations :
            /\ dhcp_reservations[i].mac = sm[i].mac
            /\ dhcp_reservations[i].ip = sm[i].ipaddr
            /\ dhcp_reservations[i].hostname =
                 (IF sm[i].hostname = Absent THEN "Unknown" ELSE sm[i].hostname)
            /\ dhcp_reservations[i].hostname # None

\* C9: the host-name map written has exactly one key per distinct host name
\* of the DNS entries, and each value is {inet: [ip]} with the ip of the last
\* entry of that name.
C9_LastWriteWins ==
    gatewayFile.exists =>
        LET m == gatewayFile.content.system.static_host_mapping.host_name IN
        /\ DOMAIN m = {dns_entries[i].hostname : i \in DOMAIN dns_entries}
        /\ \A k \in DOMAIN m :
              LET is   == {i \in DOMAIN dns_entries : dns_entries[i].hostname = k}
                  last == CHOOSE i \in is : \A j \in is : j <= i
              IN  m[k] = [inet |-> <<dns_entries[last].ip>>]

C9_Witness ==
    /\ gatewayFile.exists
    /\ \E i, j \in DOMAIN dns_entries :
          /\ i < j
          /\ dns_entries[i].hostname = dns_entries[j].hostname
          /\ dns_entries[i].ip # dns_entries[j].ip

\* C10: the POSTs issued are, in order, one per extracted reservation, the
\* i-th carrying {mac, fixed_ip: ip, name: hostname, site_id: network id,
\* use_fixedip: true} of the i-th record; once migration is over there are
\* exactly as many POSTs as records, duplicates included.
C10_OnePostPerRecord ==
    /\ Len(posts) <= Len(dhcp_reservations)
    /\ posts # <<>> => \E j \in DOMAIN networks : networks[j]._id = network_id
    /\ \A i \in 1..Len(posts) :
          posts[i] = [mac         |-> dhcp_reservations[i].mac,
                      fixed_ip    |-> dhcp_reservations[i].ip,
                      name        |-> dhcp_reservations[i].hostname,
                      site_id     |-> network_id,
                      use_fixedip |-> TRUE]
    /\ Migrated => Len(posts) = Len(dhcp_reservations)
    /\ ~Called("migrate_dhcp_reservations") => posts = <<>>

C10_Witness ==
    /\ pc = "done"
    /\ Len(posts) = 2
    /\ posts[1] = posts[2]
    /\ responses[1].status_code # responses[2].status_code

====
